---- MODULE Spec2Model ----
(***************************************************************************)
(* A model of the singly linked list of src/LinkedList.py (Spec, FairSpec), *)
(* of the binary search tree of src/BinarySearchTrees.py (SpecBST), of the *)
(* graph of src/Graphs.py (SpecGraph), of the sorting functions and the    *)
(* binary search of src/RecursiveList.py (SpecSort, FairSpecSearch) and of *)
(* the Compare expression of src/unnamed/part_000 (SpecCompare).           *)
(*                                                                         *)
(* The list is a chain of _Node objects on a heap: every node has an item  *)
(* and a next reference, and the list object holds _first.  Every method   *)
(* is an operator that walks and relinks the heap the way the Python code  *)
(* does, loop by loop, and yields the new heap, the new _first and how the *)
(* call ended (a returned value or the exception raised).  Every action is *)
(* one call of one method; it records the heap before the call, the        *)
(* arguments and the way the call ended, so that a method's contract is a  *)
(* predicate on the state after the call.  count and maximum, whose loops   *)
(* may run for ever, are taken one statement at a time.                    *)
(***************************************************************************)
EXTENDS Integers, Sequences, FiniteSets

\* ---------------------------------------------------------------- bounds
\* the longest list the model builds (append and insert stop there)
MaxLen == 3
\* the items stored in the list are 1..NumItems
NumItems == 2
\* the loop of count keeps its counter up to CountCap
CountCap == 2
\* the most items a binary search tree of the model holds (insert stops
\* there)
MaxSize == 5
\* the keys stored in a binary search tree are the first NumKeys odd numbers
NumKeys == 5
\* the items a graph's vertices are made of are 0..NumVerts - 1
NumVerts == 4
\* the longest list given to a sorting function
MaxSortLen == 4
\* the items of the lists given to a sorting function are 1..NumSortItems
NumSortItems == 3
\* the longest list given to binary_search
MaxSearchLen == 4
\* the items of the lists given to binary_search, and the items looked
\* for, are 1..NumSearchItems
NumSearchItems == 4
\* the most comparisons a Compare expression holds
MaxChain == 3
\* the operands of a Compare expression are Num(1) .. Num(NumNums)
NumNums == 3

\* ------------------------------------------------------------- the heap
\* Python's None: the empty reference, and the value of a call that
\* returns nothing
Null == 0

Items == 1..NumItems
Nodes == 1..MaxLen
\* the indices a caller passes: every valid one, negative ones, and ones
\* past the end
Indices == (0 - 2)..(MaxLen + 1)

\* a _Node object
Node(item, next) == [item |-> item, next |-> next]
\* a heap cell that holds no object
Free == [item |-> Null, next |-> Null]
EmptyHeap == [n \in Nodes |-> Free]

\* the nodes of the chain that starts at curr
RECURSIVE Chain(_, _)
Chain(h, curr) ==
  IF curr = Null THEN {} ELSE {curr} \cup Chain(h, h[curr].next)

\* _Node(...) creates an object no reference points at yet: the lowest cell
\* that the list does not reach
Alloc(h, f) ==
  CHOOSE n \in Nodes : /\ n \notin Chain(h, f)
                       /\ \A m \in Nodes : m \notin Chain(h, f) => n <= m

\* Python frees the nodes no reference reaches
Collect(h, f) == [n \in Nodes |-> IF n \in Chain(h, f) THEN h[n] ELSE Free]

\* how a call ended
Returned(h, f, v) == [heap |-> h, first |-> f, outcome |-> "ok", ret |-> v]
Raised(h, f, e) == [heap |-> h, first |-> f, outcome |-> e, ret |-> Null]

\* ------------------------------------------------------------ the methods
\* LinkedList.__init__: the loop over items, from the k-th item on
RECURSIVE InitLoop(_, _, _, _, _)
InitLoop(items, k, h, f, curr) ==
  IF k > Len(items) THEN [heap |-> h, first |-> f]
  ELSE IF curr = Null
    THEN LET new_node == Alloc(h, f)
             h1 == [h EXCEPT ![new_node] = Node(items[k], Null)]
         IN  InitLoop(items, k + 1, h1, new_node, new_node)
    ELSE LET new_node == Alloc(h, f)
             h1 == [h EXCEPT ![new_node] = Node(items[k], Null),
                             ![curr].next = new_node]
         IN  InitLoop(items, k + 1, h1, f, h1[curr].next)

\* a plausible slip: every item is linked in as the new first node
LinkedList_init_prepend(items) ==
  LET RECURSIVE Loop(_, _, _)
      Loop(k, h, f) ==
        IF k > Len(items) THEN [heap |-> h, first |-> f]
        ELSE LET new_node == Alloc(h, f)
             IN  Loop(k + 1, [h EXCEPT ![new_node] = Node(items[k], f)], new_node)
  IN  Loop(1, EmptyHeap, Null)

LinkedList_init(items) == InitLoop(items, 1, EmptyHeap, Null, Null)

\* LinkedList.to_list: the while loop from curr on
RECURSIVE ToListLoop(_, _, _)
ToListLoop(h, curr, list_so_far) ==
  IF curr # Null
    THEN ToListLoop(h, h[curr].next, Append(list_so_far, h[curr].item))
    ELSE list_so_far

LinkedList_to_list(h, f) == ToListLoop(h, f, <<>>)

\* LinkedList.__len__: the while loop from curr on
RECURSIVE LenLoop(_, _, _)
LenLoop(h, curr, len_so_far) ==
  IF h[curr].next # Null
    THEN LenLoop(h, h[curr].next, len_so_far + 1)
    ELSE len_so_far

LinkedList_len(h, f) == IF f = Null THEN 0 ELSE LenLoop(h, f, 1)

\* LinkedList.__getitem__: the while loop, then the test of curr
RECURSIVE GetitemLoop(_, _, _, _)
GetitemLoop(h, curr, curr_index, item) ==
  IF curr # Null /\ curr_index # item
    THEN GetitemLoop(h, h[curr].next, curr_index + 1, item)
    ELSE curr

\* a plausible slip: the walk starts counting at 1
LinkedList_getitem_off_by_one(h, f, item) ==
  LET curr == GetitemLoop(h, f, 1, item)
  IN  IF curr = Null THEN Raised(h, f, "IndexError")
      ELSE Returned(h, f, h[curr].item)

LinkedList_getitem(h, f, item) ==
  LET curr == GetitemLoop(h, f, 0, item)
  IN  IF curr = Null THEN Raised(h, f, "IndexError")
      ELSE Returned(h, f, h[curr].item)

\* LinkedList.__setitem__: the while loop of the last branch
RECURSIVE SetitemLoop(_, _, _, _)
SetitemLoop(h, curr, count, i) ==
  IF h[curr].next # Null /\ count # i
    THEN SetitemLoop(h, h[curr].next, count + 1, i)
    ELSE [curr |-> curr, count |-> count]

\* a plausible slip: the item is stored in the node the walk ends on before
\* that node is tested
LinkedList_setitem_store_first(h, f, i, item) ==
  IF f = Null THEN Raised(h, f, "IndexError")
  ELSE IF i = 0 THEN Returned([h EXCEPT ![f].item = item], f, Null)
  ELSE LET at == SetitemLoop(h, f, 0, i)
           h1 == [h EXCEPT ![at.curr].item = item]
       IN  IF h[at.curr].next = Null THEN Raised(h1, f, "IndexError")
           ELSE Returned(h1, f, Null)

LinkedList_setitem(h, f, i, item) ==
  IF f = Null THEN Raised(h, f, "IndexError")
  ELSE IF i = 0 THEN Returned([h EXCEPT ![f].item = item], f, Null)
  ELSE LET at == SetitemLoop(h, f, 0, i)
       IN  IF h[at.curr].next = Null THEN Raised(h, f, "IndexError")
           ELSE IF at.count = i
             THEN Returned([h EXCEPT ![at.curr].item = item], f, Null)
             ELSE Returned(h, f, Null)

\* LinkedList.index: the while loop of the last branch, then the raise
RECURSIVE IndexLoop(_, _, _, _, _)
IndexLoop(h, f, curr, count, item) ==
  IF h[curr].next # Null
    THEN IF h[curr].item = item THEN Returned(h, f, count)
         ELSE IndexLoop(h, f, h[curr].next, count + 1, item)
    ELSE Raised(h, f, "ValueError")

LinkedList_index(h, f, item) ==
  IF f = Null THEN Raised(h, f, "ValueError")
  ELSE IF h[f].next = Null
    THEN IF h[f].item = item THEN Returned(h, f, 0)
         ELSE Raised(h, f, "ValueError")
    ELSE IndexLoop(h, f, f, 0, item)

\* LinkedList.append: the walk to the last node
RECURSIVE AppendLoop(_, _)
AppendLoop(h, curr) ==
  IF h[curr].next # Null THEN AppendLoop(h, h[curr].next) ELSE curr

\* a plausible slip: no branch for the empty list, so that curr.next is
\* read off None
LinkedList_append_no_empty_case(h, f, item) ==
  LET new_node == Alloc(h, f)
      h1 == [h EXCEPT ![new_node] = Node(item, Null)]
  IN  IF f = Null THEN Raised(h1, f, "AttributeError")
      ELSE Returned([h1 EXCEPT ![AppendLoop(h1, f)].next = new_node], f, Null)

LinkedList_append(h, f, item) ==
  LET new_node == Alloc(h, f)
      h1 == [h EXCEPT ![new_node] = Node(item, Null)]
  IN  IF f = Null THEN Returned(h1, new_node, Null)
      ELSE Returned([h1 EXCEPT ![AppendLoop(h1, f)].next = new_node], f, Null)

\* LinkedList.insert: the walk to the node at index i - 1
RECURSIVE InsertLoop(_, _, _, _)
InsertLoop(h, curr, count, i) ==
  IF curr # Null /\ count # i - 1
    THEN InsertLoop(h, h[curr].next, count + 1, i)
    ELSE curr

\* a plausible slip: new_node.next is never set, so the rest of the chain
\* is cut off
LinkedList_insert_unlinked(h, f, i, item) ==
  LET new_node == Alloc(h, f)
  IN  IF i = 0 THEN Returned([h EXCEPT ![new_node] = Node(item, f)], new_node, Null)
      ELSE LET h1 == [h EXCEPT ![new_node] = Node(item, Null)]
               curr == InsertLoop(h1, f, 0, i)
           IN  IF curr = Null THEN Raised(h1, f, "IndexError")
               ELSE Returned([h1 EXCEPT ![curr].next = new_node], f, Null)

LinkedList_insert(h, f, i, item) ==
  LET new_node == Alloc(h, f)
  IN  IF i = 0 THEN Returned([h EXCEPT ![new_node] = Node(item, f)], new_node, Null)
      ELSE LET h1 == [h EXCEPT ![new_node] = Node(item, Null)]
               curr == InsertLoop(h1, f, 0, i)
           IN  IF curr = Null THEN Raised(h1, f, "IndexError")
               ELSE LET h2 == [h1 EXCEPT ![new_node].next = h1[curr].next]
                    IN  Returned([h2 EXCEPT ![curr].next = new_node], f, Null)

\* LinkedList.pop: the while loop of the branch for i # 0, then the raise
RECURSIVE PopLoop(_, _, _, _, _)
PopLoop(h, f, curr, count, i) ==
  IF h[curr].next # Null
    THEN IF i - 1 = count
           THEN LET temp == h[h[curr].next].item
                IN  Returned([h EXCEPT ![curr].next = h[h[curr].next].next], f, temp)
           ELSE PopLoop(h, f, h[curr].next, count + 1, i)
    ELSE Raised(h, f, "IndexError")

\* a plausible slip: the loop tests i == count, and so unlinks the node
\* after the one at index i
LinkedList_pop_off_by_one(h, f, i) ==
  LET RECURSIVE Loop(_, _)
      Loop(curr, count) ==
        IF h[curr].next # Null
          THEN IF i = count
                 THEN LET temp == h[h[curr].next].item
                      IN  Returned([h EXCEPT ![curr].next = h[h[curr].next].next], f, temp)
                 ELSE Loop(h[curr].next, count + 1)
          ELSE Raised(h, f, "IndexError")
  IN  IF i = 0
        THEN IF f = Null THEN Raised(h, f, "IndexError")
             ELSE Returned(h, h[f].next, h[f].item)
        ELSE IF f = Null THEN Raised(h, f, "AttributeError")
             ELSE Loop(f, 0)

\* an empty list's _first is None, and curr.next on None raises
\* AttributeError
LinkedList_pop(h, f, i) ==
  IF i = 0
    THEN IF f = Null THEN Raised(h, f, "IndexError")
         ELSE Returned(h, h[f].next, h[f].item)
    ELSE IF f = Null THEN Raised(h, f, "AttributeError")
         ELSE PopLoop(h, f, f, 0, i)

\* LinkedList.remove: the while loop over prev and curr
RECURSIVE RemoveLoop(_, _, _, _)
RemoveLoop(h, prev, curr, item) ==
  IF curr # Null /\ h[curr].item # item
    THEN RemoveLoop(h, curr, h[curr].next, item)
    ELSE [prev |-> prev, curr |-> curr]

\* a plausible slip: _first is moved past the match whatever prev is, which
\* drops the nodes in front of it
LinkedList_remove_no_prev(h, f, item) ==
  IF f = Null THEN Raised(h, f, "IndexError")
  ELSE LET at == RemoveLoop(h, Null, f, item)
       IN  IF at.curr = Null THEN Raised(h, f, "ValueError")
           ELSE Returned(h, h[at.curr].next, Null)

LinkedList_remove(h, f, item) ==
  IF f = Null THEN Raised(h, f, "IndexError")
  ELSE LET at == RemoveLoop(h, Null, f, item)
       IN  IF at.curr = Null THEN Raised(h, f, "ValueError")
           ELSE IF at.prev = Null THEN Returned(h, h[at.curr].next, Null)
           ELSE Returned([h EXCEPT ![at.prev].next = h[at.curr].next], f, Null)

\* LinkedList.is_empty
LinkedList_is_empty(h, f) == f = Null

\* a plausible slip: _first is returned but never moved on
LinkedList_remove_first_keep(h, f) ==
  IF f = Null THEN Raised(h, f, "IndexError")
  ELSE Returned(h, f, h[f].item)

\* LinkedList.remove_first
LinkedList_remove_first(h, f) ==
  IF f = Null THEN Raised(h, f, "IndexError")
  ELSE Returned(h, h[f].next, h[f].item)

\* LinkedList.remove_last: the walk to the node before the last one
RECURSIVE RemoveLastLoop(_, _)
RemoveLastLoop(h, curr) ==
  IF h[h[curr].next].next # Null THEN RemoveLastLoop(h, h[curr].next) ELSE curr

LinkedList_remove_last(h, f) ==
  IF f = Null THEN Raised(h, f, "IndexError")
  ELSE IF h[f].next = Null THEN Returned(h, Null, h[f].item)
  ELSE LET curr == RemoveLastLoop(h, f)
           temp == h[h[curr].next].item
       IN  Returned([h EXCEPT ![curr].next = Null], f, temp)

\* -math.inf, below every item
NegInf == 0 - 1

\* max(max_so_far, curr.item)
Max2(a, b) == IF a >= b THEN a ELSE b

\* ------------------------------------------------- the binary search tree
\* src/BinarySearchTrees.py.  A BinarySearchTree object is a record of its
\* _root, _left and _right; no method makes two references to one subtree
\* object, so a tree is the value of its root object.

Keys == {2 * k - 1 : k \in 1..NumKeys}

\* the None that _left and _right of an empty tree are
NoTree == [none |-> TRUE]

\* BinarySearchTree.__init__
\* a plausible slip: an empty tree is given two empty subtrees
BinarySearchTree_init_with_subtrees(root) ==
  [root |-> root,
   left |-> [root |-> Null, left |-> NoTree, right |-> NoTree],
   right |-> [root |-> Null, left |-> NoTree, right |-> NoTree]]

BinarySearchTree_init(root) ==
  IF root = Null
    THEN [root |-> Null, left |-> NoTree, right |-> NoTree]
    ELSE [root |-> root,
          left |-> [root |-> Null, left |-> NoTree, right |-> NoTree],
          right |-> [root |-> Null, left |-> NoTree, right |-> NoTree]]

\* BinarySearchTree.is_empty
BinarySearchTree_is_empty(t) == t.root = Null

\* BinarySearchTree.__contains__
RECURSIVE BinarySearchTree_contains(_, _)
BinarySearchTree_contains(t, item) ==
  IF BinarySearchTree_is_empty(t) THEN FALSE
  ELSE IF item = t.root THEN TRUE
  ELSE IF item > t.root THEN BinarySearchTree_contains(t.right, item)
  ELSE BinarySearchTree_contains(t.left, item)

\* BinarySearchTree.count, the recursion
RECURSIVE CountRec(_, _)
CountRec(t, item) ==
  IF BinarySearchTree_is_empty(t) THEN 0
  ELSE IF item = t.root THEN 1 + CountRec(t.left, item) + CountRec(t.right, item)
  ELSE IF item > t.root THEN CountRec(t.right, item)
  ELSE CountRec(t.left, item)

\* a plausible slip: an item equal to the root is not looked for below it
BinarySearchTree_count_root_only(t, item) ==
  IF BinarySearchTree_is_empty(t) THEN 0
  ELSE IF item = t.root THEN 1
  ELSE IF item > t.root THEN CountRec(t.right, item)
  ELSE CountRec(t.left, item)

BinarySearchTree_count(t, item) == CountRec(t, item)

\* BinarySearchTree.insert
RECURSIVE BinarySearchTree_insert(_, _)
BinarySearchTree_insert(t, item) ==
  IF BinarySearchTree_is_empty(t) THEN BinarySearchTree_init(item)
  ELSE IF item >= t.root
    THEN [t EXCEPT !.right = BinarySearchTree_insert(t.right, item)]
    ELSE [t EXCEPT !.left = BinarySearchTree_insert(t.left, item)]

\* BinarySearchTree._extract_leftmost_root: the tree it leaves and the item
\* it returns
RECURSIVE BinarySearchTree_extract_leftmost_root(_)
BinarySearchTree_extract_leftmost_root(t) ==
  IF BinarySearchTree_is_empty(t.left)
    THEN [tree |-> [root |-> Null, left |-> NoTree, right |-> NoTree], temp |-> t.root]
    ELSE LET r == BinarySearchTree_extract_leftmost_root(t.left)
         IN  [tree |-> [t EXCEPT !.left = r.tree], temp |-> r.temp]

\* a plausible slip: a root without subtrees loses its item but keeps its
\* two empty subtrees
BinarySearchTree_delete_root_keep_subtrees(t) ==
  IF BinarySearchTree_is_empty(t.left) /\ BinarySearchTree_is_empty(t.right)
    THEN [t EXCEPT !.root = Null]
  ELSE IF BinarySearchTree_is_empty(t.left)
    THEN [root |-> t.right.root, left |-> t.right.left, right |-> t.right.right]
  ELSE IF BinarySearchTree_is_empty(t.right)
    THEN [root |-> t.left.root, left |-> t.left.left, right |-> t.left.right]
  ELSE LET r == BinarySearchTree_extract_leftmost_root(t)
       IN  [r.tree EXCEPT !.root = r.temp]

\* BinarySearchTree._delete_root; with two subtrees it calls
\* _extract_leftmost_root on self, not on self._right
BinarySearchTree_delete_root(t) ==
  IF BinarySearchTree_is_empty(t.left) /\ BinarySearchTree_is_empty(t.right)
    THEN [root |-> Null, left |-> NoTree, right |-> NoTree]
  ELSE IF BinarySearchTree_is_empty(t.left)
    THEN [root |-> t.right.root, left |-> t.right.left, right |-> t.right.right]
  ELSE IF BinarySearchTree_is_empty(t.right)
    THEN [root |-> t.left.root, left |-> t.left.left, right |-> t.left.right]
  ELSE LET r == BinarySearchTree_extract_leftmost_root(t)
       IN  [r.tree EXCEPT !.root = r.temp]

\* BinarySearchTree.remove, the recursion
RECURSIVE RemoveRec(_, _)
RemoveRec(t, item) ==
  IF BinarySearchTree_is_empty(t) THEN t
  ELSE IF item = t.root THEN BinarySearchTree_delete_root(t)
  ELSE IF item > t.root THEN [t EXCEPT !.right = RemoveRec(t.right, item)]
  ELSE [t EXCEPT !.left = RemoveRec(t.left, item)]

\* a plausible slip: the root is deleted for every item that is not below
\* it
BinarySearchTree_remove_at_or_above(t, item) ==
  IF BinarySearchTree_is_empty(t) THEN t
  ELSE IF item >= t.root THEN BinarySearchTree_delete_root(t)
  ELSE [t EXCEPT !.left = RemoveRec(t.left, item)]

BinarySearchTree_remove(t, item) == RemoveRec(t, item)

\* BinarySearchTree.height, the recursion
RECURSIVE HeightRec(_)
HeightRec(t) ==
  IF BinarySearchTree_is_empty(t) THEN 0
  ELSE 1 + Max2(HeightRec(t.left), HeightRec(t.right))

\* a plausible slip: the right subtree is left out
BinarySearchTree_height_left_only(t) ==
  IF BinarySearchTree_is_empty(t) THEN 0
  ELSE 1 + HeightRec(t.left)

BinarySearchTree_height(t) == HeightRec(t)

\* the number of items a tree holds
RECURSIVE Size(_)
Size(t) ==
  IF BinarySearchTree_is_empty(t) THEN 0 ELSE 1 + Size(t.left) + Size(t.right)

\* ---------------------------------------------------------------- the graph
\* src/Graphs.py.  add_vertex is called with fresh items only, so a _Vertex
\* object is known by its item: _vertices is the set of the items that are
\* keys of the dict, and neighbours gives every item the items of the
\* vertices in its _Vertex.neighbours.  Python iterates a set in an order
\* the program does not choose, so a method that loops over neighbours
\* gives the set of the results of all orders.

VItems == 0..(NumVerts - 1)

\* Graph.__init__: no vertex, no neighbours
NoNeighbours == [v \in VItems |-> {}]

\* Graph.add_vertex
Graph_add_vertex(verts, nb, item) ==
  [verts |-> verts \cup {item}, nb |-> [nb EXCEPT ![item] = {}]]

\* a plausible slip: only v1.neighbours gets the new edge
Graph_add_edge_one_way(verts, nb, item1, item2) ==
  IF item1 \in verts /\ item2 \in verts
    THEN [nb |-> [nb EXCEPT ![item1] = nb[item1] \cup {item2}], outcome |-> "ok"]
    ELSE [nb |-> nb, outcome |-> "ValueError"]

\* Graph.add_edge
Graph_add_edge(verts, nb, item1, item2) ==
  IF item1 \in verts /\ item2 \in verts
    THEN [nb |-> [nb EXCEPT ![item1] = nb[item1] \cup {item2},
                            ![item2] = nb[item2] \cup {item1}],
          outcome |-> "ok"]
    ELSE [nb |-> nb, outcome |-> "ValueError"]

\* _Vertex.spanning_tree: every pair of the list it can return and the
\* visited set it leaves; SpanLoop is its for loop with the neighbours in
\* todo still to come
RECURSIVE Vertex_spanning_tree(_, _, _)
RECURSIVE SpanLoop(_, _, _, _, _)
SpanLoop(nb, self, todo, visited, edges_so_far) ==
  IF todo = {} THEN {[edges |-> edges_so_far, visited |-> visited]}
  ELSE UNION {
         IF neighbour \notin visited
           THEN UNION { SpanLoop(nb, self, todo \ {neighbour}, r.visited,
                                 Append(edges_so_far, {self, neighbour}) \o r.edges)
                        : r \in Vertex_spanning_tree(nb, neighbour, visited) }
           ELSE SpanLoop(nb, self, todo \ {neighbour}, visited, edges_so_far)
         : neighbour \in todo }

Vertex_spanning_tree(nb, self, visited) ==
  SpanLoop(nb, self, nb[self], visited \cup {self}, <<>>)

\* _Vertex.check_connected: every pair of the value it can return and the
\* visited set it leaves; CheckLoop is its for loop
RECURSIVE Vertex_check_connected(_, _, _, _)
RECURSIVE CheckLoop(_, _, _, _, _)
CheckLoop(nb, self, target_item, todo, visited) ==
  IF todo = {} THEN {[ret |-> FALSE, visited |-> visited]}
  ELSE UNION {
         IF v \notin visited
           THEN UNION { IF r.ret THEN {[ret |-> TRUE, visited |-> r.visited]}
                        ELSE CheckLoop(nb, self, target_item, todo \ {v}, r.visited)
                        : r \in Vertex_check_connected(nb, v, target_item, visited) }
           ELSE CheckLoop(nb, self, target_item, todo \ {v}, visited)
         : v \in todo }

Vertex_check_connected(nb, self, target_item, visited) ==
  IF self = target_item THEN {[ret |-> TRUE, visited |-> visited]}
  ELSE CheckLoop(nb, self, target_item, nb[self], visited \cup {self})

\* a plausible slip: only the vertex itself and its neighbours are looked at
Graph_connected_one_step(verts, nb, item1, item2) ==
  IF item1 \in verts /\ item2 \in verts
    THEN {item1 = item2 \/ item2 \in nb[item1]}
    ELSE {FALSE}

\* Graph.connected: the values it can return
Graph_connected(verts, nb, item1, item2) ==
  IF item1 \in verts /\ item2 \in verts
    THEN {r.ret : r \in Vertex_check_connected(nb, item1, item2, {})}
    ELSE {FALSE}

\* Graph.spanning_tree: the ways it can end; self._vertices[0] raises
\* KeyError when no vertex has the item 0
Graph_spanning_tree(verts, nb) ==
  IF 0 \in verts
    THEN {[outcome |-> "ok", edges |-> r.edges] : r \in Vertex_spanning_tree(nb, 0, {})}
    ELSE {[outcome |-> "KeyError", edges |-> <<>>]}

\* ------------------------------------------------------------ the sorts
\* src/RecursiveList.py.  A Python list is a sequence; lst[i] of the code
\* is lst[i + 1] here.

SortItems == 1..NumSortItems

\* lst[i], lst[j] = lst[j], lst[i]
Swap(lst, i, j) == [lst EXCEPT ![i + 1] = lst[j + 1], ![j + 1] = lst[i + 1]]

\* _min_index: the for loop from k on
RECURSIVE MinIndexLoop(_, _, _)
MinIndexLoop(lst, k, min_index) ==
  IF k >= Len(lst) THEN min_index
  ELSE MinIndexLoop(lst, k + 1, IF lst[k + 1] < lst[min_index + 1] THEN k ELSE min_index)

min_index(lst, i) == MinIndexLoop(lst, i, i)

\* selection_sort: the for loop from i on
RECURSIVE SelectionLoop(_, _)
SelectionLoop(lst, i) ==
  IF i >= Len(lst) THEN lst
  ELSE LET smallest_index == min_index(lst, i)
       IN  SelectionLoop(Swap(lst, i, smallest_index), i + 1)

selection_sort(lst) == SelectionLoop(lst, 0)

\* _insert: the for loop over range(i, 0, -1)
RECURSIVE InsertSwapLoop(_, _)
InsertSwapLoop(lst, i) ==
  IF i <= 0 THEN lst
  ELSE IF lst[i + 1] >= lst[i] THEN lst
  ELSE InsertSwapLoop(Swap(lst, i, i - 1), i - 1)

insert(lst, i) == InsertSwapLoop(lst, i)

\* insertion_sort: the for loop from i on
RECURSIVE InsertionLoop(_, _)
InsertionLoop(lst, i) ==
  IF i >= Len(lst) THEN lst ELSE InsertionLoop(insert(lst, i), i + 1)

insertion_sort(lst) == InsertionLoop(lst, 0)

\* _merge: the while loop; it ends with i1 = len(lst1) or i2 = len(lst2),
\* which is what the assert after it tests
RECURSIVE MergeLoop(_, _, _, _, _)
MergeLoop(lst1, lst2, i1, i2, sorted_list) ==
  IF i1 < Len(lst1) /\ i2 < Len(lst2)
    THEN IF lst1[i1 + 1] <= lst2[i2 + 1]
           THEN MergeLoop(lst1, lst2, i1 + 1, i2, Append(sorted_list, lst1[i1 + 1]))
           ELSE MergeLoop(lst1, lst2, i1, i2 + 1, Append(sorted_list, lst2[i2 + 1]))
    ELSE [i1 |-> i1, i2 |-> i2, sorted_list |-> sorted_list]

\* a plausible slip: what is left of the other list is not added
merge_without_rest(lst1, lst2) ==
  LET at == MergeLoop(lst1, lst2, 0, 0, <<>>)
  IN  at.sorted_list

\* _merge
merge(lst1, lst2) ==
  LET at == MergeLoop(lst1, lst2, 0, 0, <<>>)
  IN  IF at.i1 = Len(lst1)
        THEN at.sorted_list \o SubSeq(lst2, at.i2 + 1, Len(lst2))
        ELSE at.sorted_list \o SubSeq(lst1, at.i1 + 1, Len(lst1))

\* mergesort
RECURSIVE mergesort(_)
mergesort(lst) ==
  IF Len(lst) < 2 THEN lst
  ELSE LET c == Len(lst) \div 2
           left == SubSeq(lst, 1, c)
           right == SubSeq(lst, c + 1, Len(lst))
           left_sorted == mergesort(left)
           right_sorted == mergesort(right)
       IN  merge(left_sorted, right_sorted)

\* _partition: the for loop from the k-th item on
RECURSIVE PartitionLoop(_, _, _, _, _)
PartitionLoop(lst, k, pivot, smaller, bigger) ==
  IF k > Len(lst) THEN [smaller |-> smaller, bigger |-> bigger]
  ELSE IF lst[k] <= pivot
    THEN PartitionLoop(lst, k + 1, pivot, Append(smaller, lst[k]), bigger)
    ELSE PartitionLoop(lst, k + 1, pivot, smaller, Append(bigger, lst[k]))

partition(lst, pivot) == PartitionLoop(lst, 1, pivot, <<>>, <<>>)

\* quicksort
RECURSIVE quicksort(_)
quicksort(lst) ==
  IF Len(lst) < 2 THEN lst
  ELSE LET pivot == lst[1]
           parts == partition(Tail(lst), pivot)
           smaller_sorted == quicksort(parts.smaller)
           bigger_sorted == quicksort(parts.bigger)
       IN  smaller_sorted \o <<pivot>> \o bigger_sorted

\* ------------------------------------------------------------- Compare
\* src/unnamed/part_000.  The operands are Num expressions, and a Num is
\* the number it holds, since Num.evaluate returns self.n; comparisons is a
\* sequence of pairs <<op, operand>>.

\* Num.evaluate
Num_evaluate(n) == n

\* Compare.evaluate, which makes a new Compare of the rest of the chain and
\* evaluates it
RECURSIVE CompareRec(_, _)
CompareRec(left, comparisons) ==
  LET first == Num_evaluate(left)
      second == Num_evaluate(comparisons[1][2])
      rest == comparisons
  IN  IF rest[1][1] = "<"
        THEN IF Len(rest) = 1 THEN [outcome |-> "ok", ret |-> first < second]
             ELSE IF first < second THEN CompareRec(rest[1][2], Tail(rest))
             ELSE [outcome |-> "ok", ret |-> FALSE]
      ELSE IF rest[1][1] = "<="
        THEN IF Len(rest) = 1 THEN [outcome |-> "ok", ret |-> first <= second]
             ELSE IF first <= second THEN CompareRec(rest[1][2], Tail(rest))
             ELSE [outcome |-> "ok", ret |-> FALSE]
      ELSE [outcome |-> "ValueError", ret |-> FALSE]

\* a plausible slip: the value of the first comparison is returned whatever
\* follows it
Compare_evaluate_first_pair(left, comparisons) ==
  CompareRec(left, <<comparisons[1]>>)

Compare_evaluate(left, comparisons) == CompareRec(left, comparisons)

\* ---------------------------------------------------------------- state
VARIABLES
  heap,     \* the _Node objects
  first,    \* LinkedList._first
  heap0,    \* the heap when the last call started
  first0,   \* _first when the last call started
  op,       \* the last call's method
  arg_i,    \* its index argument (Null when it has none)
  arg_item, \* its item argument (Null when it has none)
  arg_items,\* the list the constructor was given
  outcome,  \* "ok", the exception the call raised, or "running"
  ret,      \* the value the call returned
  pc,       \* "idle", or the statement a call of count or maximum is at
  curr,     \* the local curr of that call
  count,    \* the local count of a call of count
  max_so_far,\* the local max_so_far of a call of maximum
  tree,     \* the BinarySearchTree
  tree0,    \* the tree when the last call started
  tree00,   \* the tree before insert(k), when the last two calls were
            \* insert(k) and then remove(k)
  paired,   \* the last two calls were insert(k) and then remove(k)
  bop,      \* the last call's method on the tree
  key,      \* its item argument
  log,      \* the items inserted, in order, while no remove was called
  removed,  \* remove has been called
  gverts,   \* Graph._vertices: the items that are vertices
  gnbrs,    \* _Vertex.neighbours of every item
  gop,      \* the last call's method on the graph
  garg1,    \* its first item argument
  garg2,    \* its second item argument
  gout,     \* "ok", or the exception the call raised
  gbool,    \* the value connected returned
  gedges,   \* the list spanning_tree returned
  slst,     \* the list given to a sorting function, as the call leaves it
  slst0,    \* that list before the call
  sop,      \* the sorting function called last
  sret,     \* the list it returned, <<>> for a function that returns None
  blst,     \* binary_search: the argument lst
  bitem,    \* binary_search: the argument item
  bpc,      \* "idle", or the statement the call of binary_search is at
  bb,       \* binary_search: the local b
  be,       \* binary_search: the local e
  bout,     \* "none", "running", "ok", or the exception the call raised
  bret,     \* the value binary_search returned
  cleft,    \* Compare.left
  ccomps,   \* Compare.comparisons
  cop,      \* "none", or "evaluate" once evaluate has been called
  cout,     \* "ok", or the exception evaluate raised
  cret      \* the value evaluate returned

llvars == <<heap, first, heap0, first0, op, arg_i, arg_item, arg_items, outcome, ret,
            pc, curr, count, max_so_far>>

bstvars == <<tree, tree0, tree00, paired, bop, key, log, removed>>

graphvars == <<gverts, gnbrs, gop, garg1, garg2, gout, gbool, gedges>>

\* the state of what is neither the list nor the tree
sortvars == <<slst, slst0, sop, sret>>

searchvars == <<blst, bitem, bpc, bb, be, bout, bret>>

cmpvars == <<cleft, ccomps, cop, cout, cret>>

restvars == <<graphvars, sortvars, searchvars, cmpvars>>

vars == <<llvars, bstvars, restvars>>

\* no graph in use
NoGraph ==
  /\ gverts = {}
  /\ gnbrs = NoNeighbours
  /\ gop = "none"
  /\ garg1 = Null
  /\ garg2 = Null
  /\ gout = "ok"
  /\ gbool = FALSE
  /\ gedges = <<>>

\* no list being sorted
NoSort ==
  /\ slst = <<>>
  /\ slst0 = <<>>
  /\ sop = "none"
  /\ sret = <<>>

\* no list being searched
NoSearch ==
  /\ blst = <<>>
  /\ bitem = Null
  /\ bpc = "idle"
  /\ bb = 0
  /\ be = 0
  /\ bout = "none"
  /\ bret = FALSE

\* no Compare expression
NoCompare ==
  /\ cleft = Null
  /\ ccomps = <<>>
  /\ cop = "none"
  /\ cout = "ok"
  /\ cret = FALSE

\* nothing but the list and the tree in use
NoRest == NoGraph /\ NoSort /\ NoSearch /\ NoCompare

\* no list in use: the state of the list in a run that works on a tree
NoList ==
  /\ heap = EmptyHeap
  /\ first = Null
  /\ heap0 = EmptyHeap
  /\ first0 = Null
  /\ op = "none"
  /\ arg_i = Null
  /\ arg_item = Null
  /\ arg_items = <<>>
  /\ outcome = "ok"
  /\ ret = Null
  /\ pc = "idle"
  /\ curr = Null
  /\ count = 0
  /\ max_so_far = NegInf

\* no tree in use: the state of the tree in a run that works on a list
NoBST ==
  /\ tree = BinarySearchTree_init(Null)
  /\ tree0 = BinarySearchTree_init(Null)
  /\ tree00 = BinarySearchTree_init(Null)
  /\ paired = FALSE
  /\ bop = "none"
  /\ key = Null
  /\ log = <<>>
  /\ removed = FALSE

\* the sequences a caller builds a list from
RECURSIVE SeqsUpTo(_)
SeqsUpTo(n) ==
  IF n = 0 THEN {<<>>}
  ELSE LET shorter == SeqsUpTo(n - 1)
       IN  shorter \cup {Append(s, x) : s \in {t \in shorter : Len(t) = n - 1}, x \in Items}

\* the list's contents now, and when the last call started
contents == LinkedList_to_list(heap, first)
contents0 == LinkedList_to_list(heap0, first0)

\* LinkedList(items)
Init ==
  \E items \in SeqsUpTo(MaxLen) :
    LET r == LinkedList_init(items)
    IN  /\ NoBST
        /\ NoRest
        /\ heap = r.heap
        /\ first = r.first
        /\ heap0 = EmptyHeap
        /\ first0 = Null
        /\ op = "init"
        /\ arg_i = Null
        /\ arg_item = Null
        /\ arg_items = items
        /\ outcome = "ok"
        /\ ret = Null
        /\ pc = "idle"
        /\ curr = Null
        /\ count = 0
        /\ max_so_far = NegInf

\* one call of a method that ended as r; the caller makes no call while an
\* earlier one has not come back
Call(name, i, item, r) ==
  /\ pc = "idle"
  /\ UNCHANGED <<pc, curr, count, max_so_far>>
  /\ UNCHANGED <<bstvars, restvars>>
  /\ heap0' = heap
  /\ first0' = first
  /\ op' = name
  /\ arg_i' = i
  /\ arg_item' = item
  /\ arg_items' = <<>>
  /\ heap' = Collect(r.heap, r.first)
  /\ first' = r.first
  /\ outcome' = r.outcome
  /\ ret' = r.ret

\* lst[i]
Getitem(i) == Call("getitem", i, Null, LinkedList_getitem(heap, first, i))

\* lst[i] = item
Setitem(i, item) == Call("setitem", i, item, LinkedList_setitem(heap, first, i, item))

\* lst.index(item)
Index(item) == Call("index", Null, item, LinkedList_index(heap, first, item))

\* lst.append(item), while the list is shorter than MaxLen
AppendItem(item) ==
  /\ LinkedList_len(heap, first) < MaxLen
  /\ Call("append", Null, item, LinkedList_append(heap, first, item))

\* lst.insert(i, item), while the list is shorter than MaxLen
Insert(i, item) ==
  /\ LinkedList_len(heap, first) < MaxLen
  /\ Call("insert", i, item, LinkedList_insert(heap, first, i, item))

\* lst.pop(i)
Pop(i) == Call("pop", i, Null, LinkedList_pop(heap, first, i))

\* lst.remove(item)
Remove(item) == Call("remove", Null, item, LinkedList_remove(heap, first, item))

\* lst.remove_first()
RemoveFirst == Call("remove_first", Null, Null, LinkedList_remove_first(heap, first))

\* lst.remove_last()
RemoveLast == Call("remove_last", Null, Null, LinkedList_remove_last(heap, first))

\* a call that has reached the loop at statement at, with curr = c
Enter(name, item, at, c) ==
  /\ pc = "idle"
  /\ heap0' = heap
  /\ first0' = first
  /\ op' = name
  /\ arg_i' = Null
  /\ arg_item' = item
  /\ arg_items' = <<>>
  /\ outcome' = "running"
  /\ ret' = Null
  /\ pc' = at
  /\ curr' = c
  /\ count' = 0
  /\ max_so_far' = NegInf
  /\ UNCHANGED <<heap, first>>
  /\ UNCHANGED <<bstvars, restvars>>

\* the running call goes on to statement at
Goto(at) ==
  /\ pc' = at
  /\ UNCHANGED <<heap, first, heap0, first0, op, arg_i, arg_item, arg_items, outcome, ret, curr>>
  /\ UNCHANGED <<bstvars, restvars>>

\* the running call returns v
Return(v) ==
  /\ pc' = "idle"
  /\ outcome' = "ok"
  /\ ret' = v
  /\ UNCHANGED <<heap, first, heap0, first0, op, arg_i, arg_item, arg_items, curr,
                 count, max_so_far>>
  /\ UNCHANGED <<bstvars, restvars>>

\* lst.count(item), up to its loop: the lists of no node and of one node
\* are answered at once
Count(item) ==
  IF first = Null THEN Call("count", Null, item, Returned(heap, first, 0))
  ELSE IF heap[first].next = Null
    THEN Call("count", Null, item,
              Returned(heap, first, IF heap[first].item = item THEN 1 ELSE 0))
    ELSE Enter("count", item, "count_while", first)

\* LinkedList.count, `while curr.next is not None:` and, past the loop,
\* `return count`
CountWhile ==
  /\ pc = "count_while"
  /\ IF heap[curr].next # Null
       THEN Goto("count_if") /\ UNCHANGED <<count, max_so_far>>
       ELSE Return(count)

\* LinkedList.count, the body of the loop: `if curr.item == item: count += 1`;
\* curr is left where it is
CountIf ==
  /\ pc = "count_if"
  /\ count' = IF heap[curr].item = arg_item /\ count < CountCap THEN count + 1 ELSE count
  /\ Goto("count_while")
  /\ UNCHANGED max_so_far

\* lst.maximum(), up to its loop
Maximum ==
  IF first = Null THEN Call("maximum", Null, Null, Raised(heap, first, "EmptyListError"))
  ELSE Enter("maximum", Null, "maximum_while", first)

\* LinkedList.maximum, `while curr is not None:` and, past the loop,
\* `return max_so_far`
MaximumWhile ==
  /\ pc = "maximum_while"
  /\ IF curr # Null
       THEN Goto("maximum_body") /\ UNCHANGED <<count, max_so_far>>
       ELSE Return(max_so_far)

\* LinkedList.maximum, the body of the loop:
\* `max_so_far = max(max_so_far, curr.item)`; curr is left where it is
MaximumBody ==
  /\ pc = "maximum_body"
  /\ max_so_far' = Max2(max_so_far, heap[curr].item)
  /\ Goto("maximum_while")
  /\ UNCHANGED count

\* the statements of a call that is running
Step == CountWhile \/ CountIf \/ MaximumWhile \/ MaximumBody

Next ==
  \/ \E i \in Indices : Getitem(i)
  \/ \E i \in Indices, item \in Items : Setitem(i, item)
  \/ \E item \in Items : Index(item)
  \/ \E item \in Items : AppendItem(item)
  \/ \E i \in Indices, item \in Items : Insert(i, item)
  \/ \E i \in Indices : Pop(i)
  \/ \E item \in Items : Remove(item)
  \/ RemoveFirst
  \/ RemoveLast
  \/ \E item \in Items : Count(item)
  \/ Maximum
  \/ CountWhile
  \/ CountIf
  \/ MaximumWhile
  \/ MaximumBody

Spec == Init /\ [][Next]_vars

\* a call that has started runs on: Python executes its next statement
FairSpec == Spec /\ WF_vars(Step)

\* BinarySearchTree(root), with an item or with None
BSTInit ==
  \E r \in Keys \cup {Null} :
    /\ NoList
    /\ NoRest
    /\ tree = BinarySearchTree_init(r)
    /\ tree0 = BinarySearchTree_init(Null)
    /\ tree00 = BinarySearchTree_init(Null)
    /\ paired = FALSE
    /\ bop = "init"
    /\ key = r
    /\ log = IF r = Null THEN <<>> ELSE <<r>>
    /\ removed = FALSE

\* bst.insert(item), while the tree holds fewer than MaxSize items
BSTInsert(item) ==
  /\ Size(tree) < MaxSize
  /\ tree' = BinarySearchTree_insert(tree, item)
  /\ tree0' = tree
  /\ tree00' = BinarySearchTree_init(Null)
  /\ paired' = FALSE
  /\ bop' = "insert"
  /\ key' = item
  /\ log' = IF removed THEN log ELSE Append(log, item)
  /\ removed' = removed
  /\ UNCHANGED <<llvars, restvars>>

\* bst.remove(item)
BSTRemove(item) ==
  /\ tree' = BinarySearchTree_remove(tree, item)
  /\ tree0' = tree
  /\ paired' = (bop = "insert" /\ key = item)
  /\ tree00' = IF bop = "insert" /\ key = item THEN tree0 ELSE BinarySearchTree_init(Null)
  /\ bop' = "remove"
  /\ key' = item
  /\ log' = <<>>
  /\ removed' = TRUE
  /\ UNCHANGED <<llvars, restvars>>

BSTNext ==
  \/ \E item \in Keys : BSTInsert(item)
  \/ \E item \in Keys : BSTRemove(item)

SpecBST == BSTInit /\ [][BSTNext]_vars

\* Graph()
GraphInit ==
  /\ NoList
  /\ NoBST
  /\ NoGraph
  /\ NoSort
  /\ NoSearch
  /\ NoCompare

\* one call of a method on the graph
GraphCall(name, item1, item2, verts, nb, out, b, edges) ==
  /\ gop' = name
  /\ garg1' = item1
  /\ garg2' = item2
  /\ gverts' = verts
  /\ gnbrs' = nb
  /\ gout' = out
  /\ gbool' = b
  /\ gedges' = edges
  /\ UNCHANGED <<llvars, bstvars, sortvars, searchvars, cmpvars>>

\* g.add_vertex(item), with an item that is no vertex yet
AddVertex(item) ==
  /\ item \notin gverts
  /\ LET r == Graph_add_vertex(gverts, gnbrs, item)
     IN  GraphCall("add_vertex", item, Null, r.verts, r.nb, "ok", FALSE, <<>>)

\* g.add_edge(item1, item2), with two different items, vertices or not
AddEdge(item1, item2) ==
  /\ item1 # item2
  /\ LET r == Graph_add_edge(gverts, gnbrs, item1, item2)
     IN  GraphCall("add_edge", item1, item2, gverts, r.nb, r.outcome, FALSE, <<>>)

\* g.connected(item1, item2)
Connected(item1, item2) ==
  \E b \in Graph_connected(gverts, gnbrs, item1, item2) :
    GraphCall("connected", item1, item2, gverts, gnbrs, "ok", b, <<>>)

\* g.spanning_tree()
SpanningTree ==
  \E r \in Graph_spanning_tree(gverts, gnbrs) :
    GraphCall("spanning_tree", Null, Null, gverts, gnbrs, r.outcome, FALSE, r.edges)

GraphNext ==
  \/ \E item \in VItems : AddVertex(item)
  \/ \E item1 \in VItems, item2 \in VItems : AddEdge(item1, item2)
  \/ \E item1 \in VItems, item2 \in VItems : Connected(item1, item2)
  \/ SpanningTree

SpecGraph == GraphInit /\ [][GraphNext]_vars

\* the lists of at most n items of S
ListsUpTo(S, n) == UNION {[1..k -> S] : k \in 0..n}

\* a list of at most MaxSortLen items
SortInit ==
  /\ NoList
  /\ NoBST
  /\ NoGraph
  /\ NoSearch
  /\ NoCompare
  /\ slst \in ListsUpTo(SortItems, MaxSortLen)
  /\ slst0 = slst
  /\ sop = "none"
  /\ sret = <<>>

\* one call of a sorting function on the list
SortCall(name, lst, r) ==
  /\ sop' = name
  /\ slst0' = slst
  /\ slst' = lst
  /\ sret' = r
  /\ UNCHANGED <<llvars, bstvars, graphvars, searchvars, cmpvars>>

\* selection_sort(lst)
SelectionSort == SortCall("selection_sort", selection_sort(slst), <<>>)

\* insertion_sort(lst)
InsertionSort == SortCall("insertion_sort", insertion_sort(slst), <<>>)

\* mergesort(lst)
MergeSort == SortCall("mergesort", slst, mergesort(slst))

\* quicksort(lst)
QuickSort == SortCall("quicksort", slst, quicksort(slst))

SortNext ==
  \/ SelectionSort
  \/ InsertionSort
  \/ MergeSort
  \/ QuickSort

SpecSort == SortInit /\ [][SortNext]_vars

\* the items of the lists searched and the items looked for
SearchItems == 1..NumSearchItems

\* a sorted list of at most MaxSearchLen items, and an item
SearchInit ==
  /\ NoList
  /\ NoBST
  /\ NoGraph
  /\ NoSort
  /\ NoCompare
  /\ blst \in {lst \in ListsUpTo(SearchItems, MaxSearchLen) :
                 \A k \in 1..(Len(lst) - 1) : lst[k] <= lst[k + 1]}
  /\ bitem \in SearchItems
  /\ bpc = "idle"
  /\ bb = 0
  /\ be = 0
  /\ bout = "none"
  /\ bret = FALSE

\* binary_search(lst, item) is called: b = 0, e = len(lst)
BinarySearch ==
  /\ bpc = "idle"
  /\ bb' = 0
  /\ be' = Len(blst)
  /\ bpc' = "while"
  /\ bout' = "running"
  /\ bret' = FALSE
  /\ UNCHANGED <<blst, bitem, llvars, bstvars, graphvars, sortvars, cmpvars>>

\* the call ends with the value v or the exception e
BinarySearchEnd(out, v) ==
  /\ bpc' = "idle"
  /\ bout' = out
  /\ bret' = v
  /\ UNCHANGED <<bb, be>>

\* while b < e: ...; return False
BinarySearchWhile ==
  /\ bpc = "while"
  /\ IF bb < be
       THEN bpc' = "body" /\ UNCHANGED <<bb, be, bout, bret>>
       ELSE BinarySearchEnd("ok", FALSE)
  /\ UNCHANGED <<blst, bitem, llvars, bstvars, graphvars, sortvars, cmpvars>>

\* the body of the loop: the two asserts, m = (e - b) // 2, and the test
\* of lst[m]
BinarySearchBody ==
  /\ bpc = "body"
  /\ IF ~(\A i \in 0..(bb - 1) : blst[i + 1] < bitem)
       THEN BinarySearchEnd("AssertionError", FALSE)
     ELSE IF ~(\A i \in be..(Len(blst) - 1) : blst[i + 1] > bitem)
       THEN BinarySearchEnd("AssertionError", FALSE)
     ELSE LET m == (be - bb) \div 2
          IN  IF bitem = blst[m + 1] THEN BinarySearchEnd("ok", TRUE)
              ELSE IF bitem < blst[m + 1]
                THEN be' = m /\ bpc' = "while" /\ UNCHANGED <<bb, bout, bret>>
                ELSE bb' = m + 1 /\ bpc' = "while" /\ UNCHANGED <<be, bout, bret>>
  /\ UNCHANGED <<blst, bitem, llvars, bstvars, graphvars, sortvars, cmpvars>>

SearchNext ==
  \/ BinarySearch
  \/ BinarySearchWhile
  \/ BinarySearchBody

SpecSearch == SearchInit /\ [][SearchNext]_vars

\* a call that has started goes on running
FairSpecSearch == SpecSearch /\ WF_vars(BinarySearchWhile \/ BinarySearchBody)

\* the numbers the operands hold, and the operators the class allows
Nums == 1..NumNums
CompareOps == {"<", "<="}

\* Compare(left, comparisons), with at least one comparison
CompareInit ==
  /\ NoList
  /\ NoBST
  /\ NoGraph
  /\ NoSort
  /\ NoSearch
  /\ cleft \in Nums
  /\ ccomps \in ListsUpTo(CompareOps \X Nums, MaxChain) \ {<<>>}
  /\ cop = "none"
  /\ cout = "ok"
  /\ cret = FALSE

\* expr.evaluate()
Evaluate ==
  /\ LET r == Compare_evaluate(cleft, ccomps)
     IN  /\ cop' = "evaluate"
         /\ cout' = r.outcome
         /\ cret' = r.ret
  /\ UNCHANGED <<cleft, ccomps, llvars, bstvars, graphvars, sortvars, searchvars>>

CompareNext == Evaluate

SpecCompare == CompareInit /\ [][CompareNext]_vars

\* ----------------------------------------------------- the list contract
\* the list S without its element at index i (counted from 0)
Without(S, i) == SubSeq(S, 1, i) \o SubSeq(S, i + 2, Len(S))
\* the list S with v put in at index i (counted from 0)
WithAt(S, i, v) == SubSeq(S, 1, i) \o <<v>> \o SubSeq(S, i + 1, Len(S))
\* v occurs in S
Occurs(S, v) == \E k \in 1..Len(S) : S[k] = v
\* the index (counted from 0) of the first occurrence of v in S
FirstIndex(S, v) ==
  (CHOOSE k \in 1..Len(S) : S[k] = v /\ \A j \in 1..(k - 1) : S[j] # v) - 1

\* C1: a list constructed from the sequence S (the empty one too) has
\* to_list() = S, in the same order.
C1_ConstructRoundTrip == op = "init" => contents = arg_items

C1_Witness ==
  /\ op = "init"
  /\ Len(arg_items) >= 2
  /\ arg_items[1] # arg_items[2]
  /\ contents = arg_items

\* C2: lst[i] returns S[i] for 0 <= i < len(S), and raises IndexError for
\* i < 0 and for i >= len(S).
C2_GetitemContract ==
  op = "getitem" =>
    IF 0 <= arg_i /\ arg_i < Len(contents0)
      THEN outcome = "ok" /\ ret = contents0[arg_i + 1]
      ELSE outcome = "IndexError"

C2_Witness ==
  /\ op = "getitem"
  /\ arg_i >= 1
  /\ outcome = "ok"
  /\ contents0[1] # contents0[arg_i + 1]
  /\ ret = contents0[arg_i + 1]

\* C3: lst[i] = value succeeds exactly when 0 <= i < n, the last index
\* n - 1 included, and then only position i has changed, to value; for
\* i < 0 and for i >= n it raises IndexError.
C3_SetitemContract ==
  op = "setitem" =>
    IF 0 <= arg_i /\ arg_i < Len(contents0)
      THEN /\ outcome = "ok"
           /\ contents = [contents0 EXCEPT ![arg_i + 1] = arg_item]
      ELSE outcome = "IndexError"

\* C4: insert(i, v) with 0 <= i <= len(S) leaves S[:i] + [v] + S[i:], and
\* with i > len(S) raises IndexError.
C4_InsertContract ==
  op = "insert" /\ arg_i >= 0 =>
    IF arg_i <= Len(contents0)
      THEN outcome = "ok" /\ contents = WithAt(contents0, arg_i, arg_item)
      ELSE outcome = "IndexError"

C4_Witness ==
  /\ op = "insert"
  /\ arg_i >= 1
  /\ arg_i < Len(contents0)
  /\ outcome = "ok"
  /\ contents = WithAt(contents0, arg_i, arg_item)

\* C5: append(v) leaves the list that insert(len(list), v) leaves when it
\* is called on the same list, the empty list included.
C5_AppendIsInsertAtLen ==
  op = "append" =>
    LET r == LinkedList_insert(heap0, first0, LinkedList_len(heap0, first0), arg_item)
    IN  /\ outcome = r.outcome
        /\ contents = LinkedList_to_list(r.heap, r.first)

C5_Witness ==
  /\ op = "append"
  /\ outcome = "ok"
  /\ Len(contents0) >= 1
  /\ Len(contents) = Len(contents0) + 1

\* C6: pop(i) with 0 <= i < len(S) returns S[i] and leaves
\* S[:i] + S[i+1:].
C6_PopContract ==
  op = "pop" /\ 0 <= arg_i /\ arg_i < Len(contents0) =>
    /\ outcome = "ok"
    /\ ret = contents0[arg_i + 1]
    /\ contents = Without(contents0, arg_i)

C6_Witness ==
  /\ op = "pop"
  /\ arg_i >= 1
  /\ arg_i + 1 < Len(contents0)
  /\ outcome = "ok"
  /\ contents = Without(contents0, arg_i)

\* C7: pop(i) with i negative or i >= the length raises IndexError and no
\* other exception, on the empty list too.
C7_PopOutOfRange ==
  op = "pop" /\ (arg_i < 0 \/ arg_i >= Len(contents0)) => outcome = "IndexError"

\* C8: remove(v) on a list that holds v unlinks the first node whose item
\* is v and leaves every other element, later occurrences of v included,
\* in its place.
C8_RemoveFirstOccurrence ==
  op = "remove" /\ Occurs(contents0, arg_item) =>
    /\ outcome = "ok"
    /\ contents = Without(contents0, FirstIndex(contents0, arg_item))

C8_Witness ==
  /\ op = "remove"
  /\ outcome = "ok"
  /\ Occurs(contents, arg_item)
  /\ FirstIndex(contents0, arg_item) >= 1
  /\ contents = Without(contents0, FirstIndex(contents0, arg_item))

\* C9: remove(v) on a list that does not hold v raises ValueError, and
\* the same ValueError when the list is empty.
C9_RemoveAbsent ==
  op = "remove" /\ ~Occurs(contents0, arg_item) => outcome = "ValueError"

\* C10: index(v) returns the least i with S[i] = v when v occurs in S, at
\* the last position only too, and raises ValueError when it does not.
C10_IndexContract ==
  op = "index" =>
    IF Occurs(contents0, arg_item)
      THEN outcome = "ok" /\ ret = FirstIndex(contents0, arg_item)
      ELSE outcome = "ValueError"

\* the number of positions of S that hold v
RECURSIVE Occurrences(_, _)
Occurrences(S, v) ==
  IF S = <<>> THEN 0
  ELSE (IF Head(S) = v THEN 1 ELSE 0) + Occurrences(Tail(S), v)

\* the largest element of the non-empty list S
Largest(S) == CHOOSE x \in {S[k] : k \in 1..Len(S)} : \A k \in 1..Len(S) : S[k] <= x

\* C11: count(v) returns the number of positions i with S[i] = v, on lists
\* of every length: every call of count comes back, and with that number.
C11_CountReturns ==
  /\ [](op = "count" /\ outcome = "ok" => ret = Occurrences(contents0, arg_item))
  /\ (op = "count" /\ outcome = "running") ~> (op = "count" /\ outcome = "ok")

\* C12: maximum() returns the largest element of a non-empty list, and
\* raises EmptyListError on the empty list: every call of maximum on a
\* non-empty list comes back, and with that element.
C12_MaximumReturns ==
  /\ [](op = "maximum" /\ contents0 = <<>> => outcome = "EmptyListError")
  /\ [](op = "maximum" /\ outcome = "ok" => ret = Largest(contents0))
  /\ (op = "maximum" /\ outcome = "running") ~> (op = "maximum" /\ outcome = "ok")

\* C13: remove_first and remove_last each take one element off a list that
\* has one, the first and the last one, and return it, so that n calls
\* drain a list of length n; is_empty() is true exactly when the length is
\* 0, and then both raise IndexError.
C13_Drain ==
  /\ LinkedList_is_empty(heap, first) <=> LinkedList_len(heap, first) = 0
  /\ LinkedList_len(heap, first) = Len(contents)
  /\ op = "remove_first" =>
       IF LinkedList_is_empty(heap0, first0)
         THEN outcome = "IndexError" /\ LinkedList_is_empty(heap, first)
         ELSE /\ outcome = "ok"
              /\ ret = Head(contents0)
              /\ contents = Tail(contents0)
              /\ LinkedList_len(heap, first) = LinkedList_len(heap0, first0) - 1
  /\ op = "remove_last" =>
       IF LinkedList_is_empty(heap0, first0)
         THEN outcome = "IndexError" /\ LinkedList_is_empty(heap, first)
         ELSE /\ outcome = "ok"
              /\ ret = contents0[Len(contents0)]
              /\ contents = SubSeq(contents0, 1, Len(contents0) - 1)
              /\ LinkedList_len(heap, first) = LinkedList_len(heap0, first0) - 1

C13_Witness ==
  /\ op = "remove_last"
  /\ outcome = "ok"
  /\ ret = contents0[1]
  /\ LinkedList_len(heap0, first0) = 1
  /\ LinkedList_is_empty(heap, first)

\* C14: a call of get, set, insert, pop, remove, remove_first, remove_last,
\* index or maximum that ends in an error leaves to_list() as it was.
C14_ErrorLeavesList ==
  outcome \notin {"ok", "running"} => contents = contents0

C14_Witness ==
  /\ op = "setitem"
  /\ outcome = "IndexError"
  /\ Len(contents0) >= 2
  /\ contents = contents0

\* ----------------------------------------------------- the tree contract
\* the number of nodes of t, anywhere in it, whose item is k
RECURSIVE Stored(_, _)
Stored(t, k) ==
  IF t.root = Null THEN 0
  ELSE (IF t.root = k THEN 1 ELSE 0) + Stored(t.left, k) + Stored(t.right, k)

\* the depths of the nodes of t, the root being at depth d
RECURSIVE Depths(_, _)
Depths(t, d) ==
  IF t.root = Null THEN {}
  ELSE {d} \cup Depths(t.left, d + 1) \cup Depths(t.right, d + 1)

\* the number of nodes on the longest path from the root to a leaf
LongestPath(t) ==
  IF Depths(t, 1) = {} THEN 0
  ELSE CHOOSE d \in Depths(t, 1) : \A e \in Depths(t, 1) : e <= d

\* C15: remove(k) on a tree that holds k takes exactly one k out of the
\* multiset of stored keys: count(k) drops by one and count(j) stays for
\* every other key j.
C15_RemoveTakesOne ==
  bop = "remove" /\ Stored(tree0, key) >= 1 =>
    \A j \in Keys :
      /\ Stored(tree, j) = Stored(tree0, j) - (IF j = key THEN 1 ELSE 0)
      /\ BinarySearchTree_count(tree, j)
           = BinarySearchTree_count(tree0, j) - (IF j = key THEN 1 ELSE 0)

\* C16: after any inserts and removes on a tree that started empty,
\* contains(k) is true exactly for the keys k stored in some node.
C16_ContainsIsStored ==
  \A k \in Keys : BinarySearchTree_contains(tree, k) <=> Stored(tree, k) >= 1

\* C17: after the keys of a multiset have been inserted one by one, in any
\* order, count(k) is the multiplicity of k in it, 0 for a key never
\* inserted.
C17_CountIsMultiplicity ==
  ~removed => \A k \in Keys : BinarySearchTree_count(tree, k) = Occurrences(log, k)

C17_Witness ==
  /\ ~removed
  /\ Len(log) >= 3
  /\ \E k \in Keys : /\ Occurrences(log, k) >= 2
                     /\ BinarySearchTree_count(tree, k) = Occurrences(log, k)

\* C18: insert(k) and then remove(k), for a key k that the tree does not
\* hold, leave the tree with the shape and the keys it had before the
\* insert (checked for every tree the model reaches, those built by
\* inserts alone among them).
C18_InsertRemoveRoundTrip ==
  paired /\ Stored(tree00, key) = 0 => tree = tree00

C18_Witness ==
  /\ paired
  /\ Stored(tree00, key) = 0
  /\ Size(tree00) >= 2
  /\ Len(log) = 0
  /\ tree = tree00

\* C19: remove(k) on an empty tree, or on one that does not hold k, leaves
\* the shape and every key as they were.
C19_RemoveAbsentKey ==
  bop = "remove" /\ Stored(tree0, key) = 0 => tree = tree0

C19_Witness ==
  /\ bop = "remove"
  /\ Stored(tree0, key) = 0
  /\ Size(tree0) >= 2
  /\ tree = tree0

\* C20: height() is 0 for the empty tree and else the number of nodes on
\* the longest path from the root to a leaf; 7, 3, 9, 1, 5 inserted in
\* that order into the empty tree give height 3.
C20_Height ==
  /\ BinarySearchTree_height(tree) = LongestPath(tree)
  /\ BinarySearchTree_is_empty(tree) => BinarySearchTree_height(tree) = 0
  /\ (~removed /\ log = <<7, 3, 9, 1, 5>>) => BinarySearchTree_height(tree) = 3

C20_Witness ==
  /\ ~removed
  /\ log = <<7, 3, 9, 1, 5>>
  /\ BinarySearchTree_height(tree) = 3

\* the keys stored in the nodes of t
RECURSIVE KeysOf(_)
KeysOf(t) ==
  IF t.root = Null THEN {} ELSE {t.root} \cup KeysOf(t.left) \cup KeysOf(t.right)

\* every non-empty node of t has the keys of its left subtree at or below
\* its key and the keys of its right subtree at or above it
RECURSIVE Ordered(_)
Ordered(t) ==
  \/ t.root = Null
  \/ /\ \A k \in KeysOf(t.left) : k <= t.root
     /\ \A k \in KeysOf(t.right) : k >= t.root
     /\ Ordered(t.left)
     /\ Ordered(t.right)

\* C26: after any inserts and removes on a tree that started empty, every
\* non-empty node has every key of its left subtree <= its key and every
\* key of its right subtree >= its key.
C26_BSTProperty == Ordered(tree)

\* the key of the leftmost descendant of the non-empty tree t
RECURSIVE LeftmostKey(_)
LeftmostKey(t) == IF t.left.root = Null THEN t.root ELSE LeftmostKey(t.left)

\* the node t0, with two non-empty children, has become t the way the root
\* deletion is described: the leftmost key of the right subtree moved up
\* and left the right subtree, and the left subtree is as it was
RightMinimumPromoted(t0, t) ==
  LET m == LeftmostKey(t0.right)
  IN  /\ t.root = m
      /\ t.left = t0.left
      /\ \A j \in Keys :
           Stored(t.right, j) = Stored(t0.right, j) - (IF j = m THEN 1 ELSE 0)

\* the node where remove(item) finds item in t0, if it has two non-empty
\* children, has become in t what the description says
RECURSIVE PromotedWhereFound(_, _, _)
PromotedWhereFound(t0, t, item) ==
  IF t0.root = Null THEN TRUE
  ELSE IF item = t0.root
    THEN t0.left.root # Null /\ t0.right.root # Null => RightMinimumPromoted(t0, t)
  ELSE IF item > t0.root THEN PromotedWhereFound(t0.right, t.right, item)
  ELSE PromotedWhereFound(t0.left, t.left, item)

\* C27: when remove(k) finds k at a node with two non-empty children, the
\* node's key becomes the minimum of its right subtree, that minimum leaves
\* the right subtree, and the left subtree does not change.
C27_RemoveTwoChildren ==
  bop = "remove" => PromotedWhereFound(tree0, tree, key)

\* in every node of t the key, the left reference and the right reference
\* are None together
RECURSIVE KeyAndChildrenCoincide(_)
KeyAndChildrenCoincide(t) ==
  /\ (t.root = Null) <=> (t.left = NoTree)
  /\ (t.root = Null) <=> (t.right = NoTree)
  /\ t.left # NoTree => KeyAndChildrenCoincide(t.left)
  /\ t.right # NoTree => KeyAndChildrenCoincide(t.right)

\* C28: after construction and after any inserts and removes, in every node
\* reachable from the root the key is None if and only if the left
\* reference is None, and if and only if the right reference is None.
C28_KeyAndChildrenCoincide == KeyAndChildrenCoincide(tree)

C28_Witness ==
  /\ bop = "remove"
  /\ Size(tree) >= 2
  /\ \/ tree0.left.root # Null /\ tree.left.root = Null /\ tree.left.left = NoTree
     \/ tree0.right.root # Null /\ tree.right.root = Null /\ tree.right.right = NoTree

\* C29: every call of a list method on a finite acyclic list comes to an
\* end, with a result or an error; count and maximum do so on lists of
\* one, two and more items.
C29_EveryCallCompletes == (outcome = "running") ~> (outcome # "running")

\* --------------------------------------------------- the graph contract
\* the edges of the graph, as sets of two items
GraphEdges == UNION {{{a, b} : b \in gnbrs[a]} : a \in gverts}

\* the items that the edges of E join to the items of S
RECURSIVE Joined(_, _)
Joined(E, S) ==
  LET S2 == S \cup {y \in VItems : \E x \in S : {x, y} \in E}
  IN  IF S2 = S THEN S ELSE Joined(E, S2)

\* every vertex is joined to every other one
GraphIsConnected == gverts # {} /\ \A a \in gverts : Joined(GraphEdges, {a}) = gverts

\* the list L holds |V| - 1 edges of the graph that join all its vertices
IsSpanningTree(L) ==
  LET E == {L[k] : k \in 1..Len(L)}
  IN  /\ E \subseteq GraphEdges
      /\ Len(L) = Cardinality(gverts) - 1
      /\ \A a \in gverts : Joined(E, {a}) = gverts

\* C21: on every connected graph, whatever the items of its vertices are,
\* spanning_tree() returns a list of |V| - 1 edges of the graph that join
\* all vertices.
C21_SpanningTree ==
  gop = "spanning_tree" /\ GraphIsConnected => gout = "ok" /\ IsSpanningTree(gedges)

\* C22: connected(a, b) is True exactly when a and b are vertices and a
\* path of edges leads from a to b, and False when one of them is no
\* vertex.
C22_Connected ==
  gop = "connected" =>
    gbool = (/\ garg1 \in gverts
             /\ garg2 \in gverts
             /\ garg2 \in Joined(GraphEdges, {garg1}))

C22_Witness ==
  /\ gop = "connected"
  /\ gbool
  /\ garg1 # garg2
  /\ garg2 \notin gnbrs[garg1]
  /\ garg2 \in Joined(GraphEdges, {garg1})

\* C30: after any add_vertex calls with fresh items and add_edge calls with
\* two different items, those that raise ValueError included, no vertex is
\* its own neighbour and every neighbour of a vertex has that vertex as a
\* neighbour.
C30_NeighboursSymmetric ==
  \A v \in gverts :
    /\ v \notin gnbrs[v]
    /\ \A u \in gnbrs[v] : u \in gverts /\ v \in gnbrs[u]

C30_Witness ==
  /\ gop = "add_edge"
  /\ gout = "ok"
  /\ garg2 \in gnbrs[garg1]
  /\ garg1 \in gnbrs[garg2]
  /\ \E w \in gverts : w \notin {garg1, garg2} /\ gnbrs[w] # {}

\* ---------------------------------------------------- the sort contract
\* the items of lst are in ascending order
IsSorted(lst) == \A k \in 1..(Len(lst) - 1) : lst[k] <= lst[k + 1]

\* lst1 and lst2 hold every item the same number of times
SameItems(lst1, lst2) ==
  /\ Len(lst1) = Len(lst2)
  /\ \A v \in SortItems : Occurrences(lst1, v) = Occurrences(lst2, v)

\* C23: selection_sort and insertion_sort leave the list in ascending order
\* with the same multiset of items; mergesort and quicksort return a list
\* in ascending order with the same multiset of items as their input.
C23_Sorts ==
  /\ sop \in {"selection_sort", "insertion_sort"} =>
       IsSorted(slst) /\ SameItems(slst, slst0)
  /\ sop \in {"mergesort", "quicksort"} =>
       IsSorted(sret) /\ SameItems(sret, slst0)

C23_Witness ==
  /\ sop = "mergesort"
  /\ Len(slst0) >= 3
  /\ ~IsSorted(slst0)
  /\ \E v \in SortItems : Occurrences(slst0, v) >= 2
  /\ IsSorted(sret)
  /\ SameItems(sret, slst0)

\* C24: on every sorted list and for every item, the binary_search that
\* asserts its loop invariants and probes at (e - b) // 2 comes to an end,
\* and returns True if the item is in the list and False if not.
C24_BinarySearch ==
  /\ [](bout = "ok" => bret = (\E k \in 1..Len(blst) : blst[k] = bitem))
  /\ [](bout # "AssertionError")
  /\ (bout = "running") ~> (bout = "ok")

\* ------------------------------------------------- the Compare contract
\* the k-th operand of the chain, the left one being the first
Operand(k) == IF k = 1 THEN cleft ELSE ccomps[k - 1][2]

\* the k-th comparison of the chain holds between its two operands
PairHolds(k) ==
  IF ccomps[k][1] = "<" THEN Operand(k) < Operand(k + 1)
  ELSE Operand(k) <= Operand(k + 1)

\* C25: evaluate() of a Compare whose operators are '<' or '<=' returns
\* True exactly when every comparison of the chain holds between the two
\* operands next to it.
C25_CompareChain ==
  cop = "evaluate" =>
    /\ cout = "ok"
    /\ cret = (\A k \in 1..Len(ccomps) : PairHolds(k))

C25_Witness ==
  /\ cop = "evaluate"
  /\ Len(ccomps) >= 3
  /\ ccomps[1][1] # ccomps[2][1]
  /\ PairHolds(1)
  /\ PairHolds(2)
  /\ ~PairHolds(3)
  /\ cret = FALSE

====
